---------------------------- MODULE Spec2Model ----------------------------
(***************************************************************************)
(* AssetCustodyContract (contracts/hello-world/src/lib.rs): a custody      *)
(* ledger kept in the contract's instance storage.  Every public function  *)
(* runs as one host transaction: a panic rolls back every write of the     *)
(* call, so each handler is one atomic action.                             *)
(*                                                                         *)
(* The i128 balance is modelled with a narrow two's-complement range       *)
(* I128_MIN..I128_MAX so that the overflow of `balance += amount` is       *)
(* reachable.  What an overflowing `+=` does depends on the build profile  *)
(* (overflow-checks on: panic; off: wrap), which lib.rs does not fix, so   *)
(* the profile is chosen nondeterministically in Init.                     *)
(***************************************************************************)
EXTENDS Integers, FiniteSets, Sequences

\* ------------------------------------------------------------- bounds
\* Largest value of the (narrowed) i128 balance/amount type.
I128_MAX == 2
\* Largest u32 signature count / threshold tried.
MaxSignatures == 3
\* Number of contract invocations explored.
MaxCalls == 3

I128_MIN == -I128_MAX - 1

\* Addresses that invoke the contract.
Owners == {"GA", "GB"}

\* i128 arguments tried: negative, zero and every positive value.
Amounts == -1..I128_MAX

\* u32 arguments tried.
SignatureCounts == 0..MaxSignatures

\* extend_ttl(5000, 5000)
TTL_THRESHOLD == 5000
TTL_EXTEND_TO == 5000

\* Ledgers that pass in one LedgerClose step.
TtlTick == TTL_THRESHOLD \div 2

VARIABLES
    accounts,         \* instance storage, keys CustodyBook::Account(owner)
    tot_acc,          \* instance storage, key TOT_ACC: <<>> (unset) or <<n>>
    ttl,              \* remaining lifetime of the instance storage, in ledgers
    overflow_checks,  \* build profile: does i128 `+=` panic on overflow?
    last,             \* the latest invocation: arguments and outcome
    created,          \* history: create_custody_account calls that returned true
    ledger,           \* history: per owner, deposits that returned true minus
                      \*          withdrawals that returned true (unbounded integer)
    calls             \* history: number of invocations so far

vars == <<accounts, tot_acc, ttl, overflow_checks, last, created, ledger, calls>>

store == <<accounts, tot_acc, ttl>>

\* struct CustodyAccount
CustodyAccount(owner, balance, required_signatures, is_insured, is_active) ==
    [owner |-> owner, balance |-> balance,
     required_signatures |-> required_signatures,
     is_insured |-> is_insured, is_active |-> is_active]

\* Placeholder in `last.account` for calls that return a bool.
NoAccount == CustodyAccount("", 0, 0, FALSE, FALSE)

\* env.storage().instance().get(&CustodyBook::Account(owner)) : Option
get(owner) == IF owner \in DOMAIN accounts THEN <<accounts[owner]>> ELSE <<>>


\* Mutant: all accounts share one storage key, a write replaces the others.
set_single_key(owner, account) == [o \in {owner} |-> account]

\* env.storage().instance().set(&CustodyBook::Account(owner), &account)
set(owner, account) ==
    [o \in DOMAIN accounts \cup {owner} |->
        IF o = owner THEN account ELSE accounts[o]]

\* Option::unwrap_or
unwrap_or(opt, default) == IF opt = <<>> THEN default ELSE opt[1]

\* Two's-complement wrap of an i128 result.
wrap_i128(x) == ((x - I128_MIN) % (2 * (I128_MAX + 1))) + I128_MIN


\* Mutant: the threshold comparison is reversed.
extend_ttl_reversed(threshold, extend_to) ==
    IF ttl > threshold THEN extend_to ELSE ttl

\* env.storage().instance().extend_ttl(threshold, extend_to)
extend_ttl(threshold, extend_to) ==
    IF ttl < threshold THEN extend_to ELSE ttl

\* Mutant: the existence check reads a key that is never written.
existing_wrong_key(owner) == <<>>

\* let existing: Option<CustodyAccount> = ...get(&account_key);
existing(owner) == get(owner)

\* Mutant: off-by-one threshold, a single signature is accepted.
below_minimum_off_by_one(required_signatures) == required_signatures < 1

\* Mutant: the comparison is reversed.
below_minimum_reversed(required_signatures) == required_signatures >= 2

\* if required_signatures < 2
below_minimum(required_signatures) == required_signatures < 2


\* Mutant: the insurance argument is dropped, is_insured is always false.
new_account_ignores_insurance(owner, required_signatures, insurance) ==
    CustodyAccount(owner, 0, required_signatures, FALSE, TRUE)


\* Mutant: the record is created with is_active: false.
new_account_inactive(owner, required_signatures, insurance) ==
    CustodyAccount(owner, 0, required_signatures, insurance, FALSE)

\* let new_account = CustodyAccount { ... };
new_account(owner, required_signatures, insurance) ==
    CustodyAccount(owner, 0, required_signatures, insurance, TRUE)

\* Mutant: the counter is read and written back without `total += 1`.
next_total_no_increment(stored) == unwrap_or(stored, 0)

\* let mut total = ...get(&TOTAL_ACCOUNTS).unwrap_or(0); total += 1;
next_total(stored) == unwrap_or(stored, 0) + 1

\* Mutant: a zero amount passes the check.
deposit_rejects_negative_only(amount) == amount < 0

\* if amount <= 0   (deposit_assets)
deposit_rejects_amount(amount) == amount <= 0

\* if amount <= 0   (withdraw_assets)
withdraw_rejects_amount(amount) == amount <= 0

\* Mutant: off-by-one, one signature short still passes.
insufficient_signatures_off_by_one(signatures_count, account) ==
    signatures_count + 1 < account.required_signatures

\* if signatures_count < account.required_signatures
insufficient_signatures(signatures_count, account) ==
    signatures_count < account.required_signatures

\* Mutant: off-by-one, one unit more than the balance may be withdrawn.
insufficient_balance_off_by_one(account, amount) == account.balance + 1 < amount

\* if account.balance < amount
insufficient_balance(account, amount) == account.balance < amount

\* The arguments and outcome of one invocation.
Call(op, owner, amount, signatures_count, required_signatures, insurance, authed) ==
    [op |-> op, owner |-> owner, amount |-> amount,
     signatures_count |-> signatures_count,
     required_signatures |-> required_signatures,
     insurance |-> insurance, authed |-> authed,
     result |-> "none", account |-> NoAccount]


\* Mutant: the retention window is refreshed before `return false`.
Reject_after_extend_ttl(call) ==
    /\ last' = [call EXCEPT !.result = "false"]
    /\ calls' = calls + 1
    /\ ttl' = extend_ttl(TTL_THRESHOLD, TTL_EXTEND_TO)
    /\ UNCHANGED <<accounts, tot_acc, overflow_checks, created, ledger>>

\* `return false`: nothing was written before it.
Reject(call) ==
    /\ last' = [call EXCEPT !.result = "false"]
    /\ calls' = calls + 1
    /\ UNCHANGED <<accounts, tot_acc, ttl, overflow_checks, created, ledger>>

\* panic!/failed require_auth: the host discards the call's effects.
Abort(call) ==
    /\ last' = [call EXCEPT !.result = "abort"]
    /\ calls' = calls + 1
    /\ UNCHANGED <<accounts, tot_acc, ttl, overflow_checks, created, ledger>>

Init ==
    /\ accounts = <<>>
    /\ tot_acc = <<>>
    /\ ttl \in {TtlTick, TTL_EXTEND_TO + TtlTick}
    /\ overflow_checks \in BOOLEAN
    /\ last = Call("none", "", 0, 0, 0, FALSE, FALSE)
    /\ created = 0
    /\ ledger = [o \in Owners |-> 0]
    /\ calls = 0

\* pub fn create_custody_account(env, owner, required_signatures, insurance) -> bool
\* `authed`: whether owner.require_auth() succeeds for this invocation.
create_custody_account(owner, required_signatures, insurance, authed) ==
    LET call == Call("create", owner, 0, 0, required_signatures, insurance, authed) IN
    /\ calls < MaxCalls
    /\ IF ~authed THEN Abort(call)
       ELSE IF existing(owner) # <<>> THEN Reject(call)
       ELSE IF below_minimum(required_signatures) THEN Abort(call)
       ELSE /\ accounts' = set(owner, new_account(owner, required_signatures, insurance))
            /\ tot_acc' = <<next_total(tot_acc)>>
            /\ ttl' = extend_ttl(TTL_THRESHOLD, TTL_EXTEND_TO)
            /\ last' = [call EXCEPT !.result = "true"]
            /\ created' = created + 1
            /\ calls' = calls + 1
            /\ UNCHANGED <<overflow_checks, ledger>>


\* Mutant: a missing account is read with unwrap_or(sentinel), as in
\* view_custody_account, instead of panicking.
deposit_assets_default_account(owner, amount, authed) ==
    LET call == Call("deposit", owner, amount, 0, 0, FALSE, authed) IN
    /\ calls < MaxCalls
    /\ IF ~authed THEN Abort(call)
       ELSE IF deposit_rejects_amount(amount) THEN Reject(call)
       ELSE LET account == unwrap_or(get(owner), CustodyAccount(owner, 0, 0, FALSE, FALSE))
                sum == account.balance + amount
            IN  IF ~account.is_active THEN Reject(call)
                ELSE IF (sum > I128_MAX \/ sum < I128_MIN) /\ overflow_checks
                THEN Abort(call)
                ELSE /\ accounts' = set(owner, [account EXCEPT !.balance = wrap_i128(sum)])
                     /\ ttl' = extend_ttl(TTL_THRESHOLD, TTL_EXTEND_TO)
                     /\ last' = [call EXCEPT !.result = "true"]
                     /\ ledger' = [ledger EXCEPT ![owner] = @ + amount]
                     /\ calls' = calls + 1
                     /\ UNCHANGED <<tot_acc, overflow_checks, created>>

\* pub fn deposit_assets(env, owner, amount) -> bool
deposit_assets(owner, amount, authed) ==
    LET call == Call("deposit", owner, amount, 0, 0, FALSE, authed) IN
    /\ calls < MaxCalls
    /\ IF ~authed THEN Abort(call)
       ELSE IF deposit_rejects_amount(amount) THEN Reject(call)
       ELSE IF get(owner) = <<>> THEN Abort(call)
       ELSE LET account == get(owner)[1]
                sum == account.balance + amount
            IN  IF ~account.is_active THEN Reject(call)
                ELSE IF (sum > I128_MAX \/ sum < I128_MIN) /\ overflow_checks
                THEN Abort(call)
                ELSE /\ accounts' = set(owner, [account EXCEPT !.balance = wrap_i128(sum)])
                     /\ ttl' = extend_ttl(TTL_THRESHOLD, TTL_EXTEND_TO)
                     /\ last' = [call EXCEPT !.result = "true"]
                     /\ ledger' = [ledger EXCEPT ![owner] = @ + amount]
                     /\ calls' = calls + 1
                     /\ UNCHANGED <<tot_acc, overflow_checks, created>>


\* Mutant: owner.require_auth() is called after the amount check.
withdraw_assets_auth_late(owner, amount, signatures_count, authed) ==
    LET call == Call("withdraw", owner, amount, signatures_count, 0, FALSE, authed) IN
    /\ calls < MaxCalls
    /\ IF withdraw_rejects_amount(amount) THEN Reject(call)
       ELSE IF ~authed THEN Abort(call)
       ELSE IF get(owner) = <<>> THEN Abort(call)
       ELSE LET account == get(owner)[1]
                diff == account.balance - amount
            IN  IF ~account.is_active THEN Reject(call)
                ELSE IF insufficient_signatures(signatures_count, account) THEN Abort(call)
                ELSE IF insufficient_balance(account, amount) THEN Reject(call)
                ELSE IF (diff > I128_MAX \/ diff < I128_MIN) /\ overflow_checks
                THEN Abort(call)
                ELSE /\ accounts' = set(owner, [account EXCEPT !.balance = wrap_i128(diff)])
                     /\ ttl' = extend_ttl(TTL_THRESHOLD, TTL_EXTEND_TO)
                     /\ last' = [call EXCEPT !.result = "true"]
                     /\ ledger' = [ledger EXCEPT ![owner] = @ - amount]
                     /\ calls' = calls + 1
                     /\ UNCHANGED <<tot_acc, overflow_checks, created>>


\* Mutant: the balance check is made before the signature check.
withdraw_assets_balance_first(owner, amount, signatures_count, authed) ==
    LET call == Call("withdraw", owner, amount, signatures_count, 0, FALSE, authed) IN
    /\ calls < MaxCalls
    /\ IF ~authed THEN Abort(call)
       ELSE IF withdraw_rejects_amount(amount) THEN Reject(call)
       ELSE IF get(owner) = <<>> THEN Abort(call)
       ELSE LET account == get(owner)[1]
                diff == account.balance - amount
            IN  IF ~account.is_active THEN Reject(call)
                ELSE IF insufficient_balance(account, amount) THEN Reject(call)
                ELSE IF insufficient_signatures(signatures_count, account) THEN Abort(call)
                ELSE IF (diff > I128_MAX \/ diff < I128_MIN) /\ overflow_checks
                THEN Abort(call)
                ELSE /\ accounts' = set(owner, [account EXCEPT !.balance = wrap_i128(diff)])
                     /\ ttl' = extend_ttl(TTL_THRESHOLD, TTL_EXTEND_TO)
                     /\ last' = [call EXCEPT !.result = "true"]
                     /\ ledger' = [ledger EXCEPT ![owner] = @ - amount]
                     /\ calls' = calls + 1
                     /\ UNCHANGED <<tot_acc, overflow_checks, created>>

\* pub fn withdraw_assets(env, owner, amount, signatures_count) -> bool
withdraw_assets(owner, amount, signatures_count, authed) ==
    LET call == Call("withdraw", owner, amount, signatures_count, 0, FALSE, authed) IN
    /\ calls < MaxCalls
    /\ IF ~authed THEN Abort(call)
       ELSE IF withdraw_rejects_amount(amount) THEN Reject(call)
       ELSE IF get(owner) = <<>> THEN Abort(call)
       ELSE LET account == get(owner)[1]
                diff == account.balance - amount
            IN  IF ~account.is_active THEN Reject(call)
                ELSE IF insufficient_signatures(signatures_count, account) THEN Abort(call)
                ELSE IF insufficient_balance(account, amount) THEN Reject(call)
                ELSE IF (diff > I128_MAX \/ diff < I128_MIN) /\ overflow_checks
                THEN Abort(call)
                ELSE /\ accounts' = set(owner, [account EXCEPT !.balance = wrap_i128(diff)])
                     /\ ttl' = extend_ttl(TTL_THRESHOLD, TTL_EXTEND_TO)
                     /\ last' = [call EXCEPT !.result = "true"]
                     /\ ledger' = [ledger EXCEPT ![owner] = @ - amount]
                     /\ calls' = calls + 1
                     /\ UNCHANGED <<tot_acc, overflow_checks, created>>


\* Mutant: the sentinel is a default record that does not carry the queried owner.
lookup_default_owner(owner) == unwrap_or(get(owner), NoAccount)

\* The value view_custody_account returns: the stored record, or the sentinel.
lookup(owner) ==
    unwrap_or(get(owner), CustodyAccount(owner, 0, 0, FALSE, FALSE))

\* pub fn view_custody_account(env, owner) -> CustodyAccount   (no require_auth)
view_custody_account(owner) ==
    /\ calls < MaxCalls
    /\ last' = [Call("view", owner, 0, 0, 0, FALSE, FALSE) EXCEPT
                    !.result = "account", !.account = lookup(owner)]
    /\ calls' = calls + 1
    /\ UNCHANGED <<accounts, tot_acc, ttl, overflow_checks, created, ledger>>

\* Ledgers close between invocations: the instance's remaining lifetime shrinks.
\* The instance stays live (an archived instance cannot be invoked).
LedgerClose ==
    /\ ttl > TtlTick
    /\ ttl' = ttl - TtlTick
    /\ UNCHANGED <<accounts, tot_acc, overflow_checks, last, created, ledger, calls>>

Next ==
    \/ \E owner \in Owners, required_signatures \in SignatureCounts,
          insurance \in BOOLEAN, authed \in BOOLEAN :
            create_custody_account(owner, required_signatures, insurance, authed)
    \/ \E owner \in Owners, amount \in Amounts, authed \in BOOLEAN :
            deposit_assets(owner, amount, authed)
    \/ \E owner \in Owners, amount \in Amounts,
          signatures_count \in SignatureCounts, authed \in BOOLEAN :
            withdraw_assets(owner, amount, signatures_count, authed)
    \/ \E owner \in Owners : view_custody_account(owner)
    \/ LedgerClose

Spec == Init /\ [][Next]_vars

\* The value of the TotalAccounts counter: TOT_ACC read with unwrap_or(0).
TotalAccounts == unwrap_or(tot_acc, 0)


\* =====================================================================
\* Properties
\* =====================================================================

\* This step is an invocation of `op` (LedgerClose leaves `calls` alone).
Invoked(op) == calls' = calls + 1 /\ last'.op = op

\* The owner argument of this step's invocation has a stored account.
HasAccount == last'.owner \in DOMAIN accounts

\* The stored account of this step's owner argument, before the call.
Target == accounts[last'.owner]

\* ---------------------------------------------------------------- C1
\* C1: an account's balance decreases only in a step that is a
\* withdraw_assets call returning true; every such call has
\* signatures_count >= required_signatures (>= 2), 0 < amount <= the balance
\* before the call, and lowers the balance by exactly amount.
C1_ReleaseOnlyByAuthorizedWithdraw ==
    [][ /\ \A o \in DOMAIN accounts :
              (o \in DOMAIN accounts' /\ accounts'[o].balance < accounts[o].balance)
              => (Invoked("withdraw") /\ last'.owner = o /\ last'.result = "true")
        /\ (Invoked("withdraw") /\ last'.result = "true")
              => /\ HasAccount
                 /\ last'.signatures_count >= Target.required_signatures
                 /\ last'.signatures_count >= 2
                 /\ last'.amount > 0
                 /\ last'.amount <= Target.balance
                 /\ accounts'[last'.owner].balance = Target.balance - last'.amount
      ]_vars

\* ---------------------------------------------------------------- C2
\* C2: the balance of every stored account is >= 0 after every operation.
C2_BalanceNonNegative ==
    \A o \in DOMAIN accounts : accounts[o].balance >= 0

\* ---------------------------------------------------------------- C3
\* C3 (as stated): for every existing account and EVERY amount,
\* withdraw_assets with signatures_count < required_signatures aborts and
\* leaves the account records and TotalAccounts unchanged.
C3_FewSignaturesAbortAnyAmount ==
    [][ (Invoked("withdraw") /\ HasAccount
            /\ last'.signatures_count < Target.required_signatures)
        => (last'.result = "abort" /\ accounts' = accounts /\ tot_acc' = tot_acc)
      ]_vars

\* C3 (amended): for every existing account and every amount > 0,
\* withdraw_assets with signatures_count < required_signatures aborts (it
\* returns neither true nor false) and leaves the account records and
\* TotalAccounts unchanged.
C3_FewSignaturesAbort ==
    [][ (Invoked("withdraw") /\ HasAccount /\ last'.amount > 0
            /\ last'.signatures_count < Target.required_signatures)
        => (last'.result = "abort" /\ accounts' = accounts /\ tot_acc' = tot_acc)
      ]_vars

\* An authenticated withdrawal the balance covers was aborted for want of
\* signatures.
C3_Witness ==
    /\ last.op = "withdraw" /\ last.result = "abort" /\ last.authed
    /\ last.owner \in DOMAIN accounts
    /\ last.amount > 0
    /\ last.amount <= accounts[last.owner].balance
    /\ last.signatures_count < accounts[last.owner].required_signatures

\* ---------------------------------------------------------------- C4
\* C4: for an existing active account, an (authenticated) withdraw_assets
\* with signatures_count >= required_signatures and amount > balance
\* returns false and leaves every stored value unchanged.
C4_InsufficientBalanceReturnsFalse ==
    [][ (Invoked("withdraw") /\ last'.authed /\ HasAccount
            /\ Target.is_active
            /\ last'.signatures_count >= Target.required_signatures
            /\ last'.amount > Target.balance)
        => (last'.result = "false" /\ UNCHANGED store)
      ]_vars

\* An authorized withdrawal of a positive amount above a positive balance
\* was rejected.
C4_Witness ==
    /\ last.op = "withdraw" /\ last.result = "false" /\ last.authed
    /\ last.owner \in DOMAIN accounts
    /\ accounts[last.owner].is_active
    /\ accounts[last.owner].balance > 0
    /\ last.signatures_count >= accounts[last.owner].required_signatures
    /\ last.amount > accounts[last.owner].balance

\* ---------------------------------------------------------------- C5
\* C5: the balance view_custody_account reports for an owner equals that
\* owner's successful deposits minus successful withdrawals (0 at creation
\* and for an owner without an account).
C5_LedgerConservation ==
    \A o \in Owners : lookup(o).balance = ledger[o]

\* ---------------------------------------------------------------- C6
\* C6 (as stated): an authenticated create_custody_account with
\* required_signatures < 2 aborts in every reachable state and for every
\* owner, and writes neither an account record nor TotalAccounts.
C6_LowThresholdAlwaysAborts ==
    [][ (Invoked("create") /\ last'.authed /\ last'.required_signatures < 2)
        => (last'.result = "abort" /\ accounts' = accounts /\ tot_acc' = tot_acc)
      ]_vars

\* C6 (amended): an authenticated create_custody_account with
\* required_signatures < 2 writes neither an account record nor
\* TotalAccounts; it aborts when the owner has no account, and returns false
\* when the owner already has one (the existence check comes first).
C6_LowThresholdAborts ==
    [][ (Invoked("create") /\ last'.authed /\ last'.required_signatures < 2)
        => /\ accounts' = accounts /\ tot_acc' = tot_acc
           /\ ~HasAccount => last'.result = "abort"
           /\ HasAccount => last'.result = "false"
      ]_vars

\* A creation with a threshold below 2 was aborted for an owner without an
\* account, and left none.
C6_Witness ==
    /\ last.op = "create" /\ last.result = "abort" /\ last.authed
    /\ last.required_signatures < 2
    /\ last.owner \notin DOMAIN accounts

\* ---------------------------------------------------------------- C7
\* C7: every stored custody account has required_signatures >= 2.
C7_StoredThresholdAtLeastTwo ==
    \A o \in DOMAIN accounts : accounts[o].required_signatures >= 2

\* Both owners hold an account, with different thresholds.
C7_Witness ==
    /\ DOMAIN accounts = Owners
    /\ \E o, p \in Owners :
          accounts[o].required_signatures # accounts[p].required_signatures

\* ---------------------------------------------------------------- C8
\* C8: when an account exists for owner, an (authenticated)
\* create_custody_account(owner, s, i) returns false for every s and i, and
\* leaves every stored record and TotalAccounts as they were; the number
\* of successful creations is not incremented.
C8_DuplicateCreateRejected ==
    [][ (Invoked("create") /\ last'.authed /\ HasAccount)
        => /\ last'.result = "false"
           /\ accounts' = accounts
           /\ tot_acc' = tot_acc
           /\ created' = created
      ]_vars

\* A second creation, with other arguments than the stored record has, was
\* rejected.
C8_Witness ==
    /\ last.op = "create" /\ last.result = "false" /\ last.authed
    /\ last.owner \in DOMAIN accounts
    /\ last.required_signatures >= 2
    /\ last.required_signatures # accounts[last.owner].required_signatures
    /\ last.insurance # accounts[last.owner].is_insured
    /\ TotalAccounts = 1

\* ---------------------------------------------------------------- C9
\* C9: TotalAccounts is 0 initially and always equals the number of
\* create_custody_account calls that returned true, which equals the
\* number of owners with a stored account; only a create_custody_account
\* call that returns true changes the stored counter.
\* (The u64 `total += 1` cannot overflow: it would take 2^64 stored accounts.)
C9_TotalAccountsCountsCreations ==
    /\ TotalAccounts = 0
    /\ [](TotalAccounts = created /\ created = Cardinality(DOMAIN accounts))
    /\ [][ (tot_acc' # tot_acc)
             => (Invoked("create") /\ last'.result = "true")
         ]_vars

\* Two creations succeeded and a later deposit left the counter at 2.
C9_Witness ==
    /\ TotalAccounts = 2
    /\ last.op = "deposit" /\ last.result = "true"

\* --------------------------------------------------------------- C10
\* C10: an authenticated deposit_assets or withdraw_assets with
\* amount <= 0 returns false and changes no record, counter or balance,
\* whether or not the owner has an account.
C10_NonPositiveAmountRejected ==
    [][ ((Invoked("deposit") \/ Invoked("withdraw"))
            /\ last'.authed /\ last'.amount <= 0)
        => (last'.result = "false" /\ UNCHANGED <<store, created, ledger>>)
      ]_vars

\* A zero deposit for an owner without an account returned false.
C10_Witness ==
    /\ last.op = "deposit" /\ last.result = "false" /\ last.authed
    /\ last.amount = 0
    /\ last.owner \notin DOMAIN accounts

\* The not-found value of view_custody_account for `owner`.
Sentinel(owner) == CustodyAccount(owner, 0, 0, FALSE, FALSE)

\* --------------------------------------------------------------- C11
\* C11: deposit_assets or withdraw_assets with amount > 0 for an owner
\* without an account aborts (it returns neither true nor false), whatever
\* signatures_count and whoever the caller is; it creates no record for
\* that owner and leaves every record, TotalAccounts and the count of
\* creations unchanged.
C11_MissingAccountAborts ==
    [][ ((Invoked("deposit") \/ Invoked("withdraw"))
            /\ last'.amount > 0 /\ ~HasAccount)
        => /\ last'.result = "abort"
           /\ last'.owner \notin DOMAIN accounts'
           /\ UNCHANGED <<store, created>>
      ]_vars

\* A fully signed, authenticated withdrawal for an owner without an account
\* was aborted while another owner has one.
C11_Witness ==
    /\ last.op = "withdraw" /\ last.result = "abort" /\ last.authed
    /\ last.amount > 0
    /\ last.signatures_count = MaxSignatures
    /\ last.owner \notin DOMAIN accounts
    /\ DOMAIN accounts # {}

\* --------------------------------------------------------------- C12
\* C12: view_custody_account needs no authentication and is read-only: it
\* returns the stored record of a created owner, and for an owner without
\* one the record (owner = the queried owner, balance 0,
\* required_signatures 0, is_insured false, is_active false); it changes
\* no account record, not TotalAccounts and not the retention window.
C12_ViewIsReadOnly ==
    [][ Invoked("view")
        => /\ last'.result = "account"
           /\ HasAccount => last'.account = Target
           /\ ~HasAccount =>
                /\ last'.account.owner = last'.owner
                /\ last'.account.balance = 0
                /\ last'.account.required_signatures = 0
                /\ last'.account.is_insured = FALSE
                /\ last'.account.is_active = FALSE
           /\ UNCHANGED <<store, created, ledger>>
      ]_vars

\* The sentinel was returned for an owner without an account while the
\* other owner holds a funded one.
C12_Witness ==
    /\ last.op = "view" /\ last.result = "account"
    /\ last.owner \notin DOMAIN accounts
    /\ last.account = Sentinel(last.owner)
    /\ \E o \in DOMAIN accounts : accounts[o].balance > 0

\* --------------------------------------------------------------- C13
\* C13: a create_custody_account, deposit_assets or withdraw_assets call
\* whose caller is not authenticated as the owner argument aborts, for every
\* combination of the other arguments and in every state, and changes no
\* account record, counter or retention window.
C13_AuthenticationFirst ==
    [][ ((Invoked("create") \/ Invoked("deposit") \/ Invoked("withdraw"))
            /\ ~last'.authed)
        => (last'.result = "abort" /\ UNCHANGED <<store, created, ledger>>)
      ]_vars

\* An unauthenticated withdrawal with a non-positive amount on an existing
\* account was aborted (an authenticated one would have returned false).
C13_Witness ==
    /\ last.op = "withdraw" /\ last.result = "abort" /\ ~last.authed
    /\ last.amount <= 0
    /\ last.owner \in DOMAIN accounts

\* This step is a call of one of the three mutating functions.
InvokedMutator == Invoked("create") \/ Invoked("deposit") \/ Invoked("withdraw")

\* --------------------------------------------------------------- C14
\* C14: a create_custody_account, deposit_assets or withdraw_assets call
\* that returns false or aborts leaves all account records, TotalAccounts
\* and the retention window exactly as they were.
C14_OnlySuccessMutates ==
    [][ (InvokedMutator /\ last'.result \in {"false", "abort"})
        => UNCHANGED store
      ]_vars

\* A withdrawal from an existing account was rejected while the retention
\* window was below the refresh threshold, and the window stayed there.
C14_Witness ==
    /\ last.op = "withdraw" /\ last.result = "false" /\ last.authed
    /\ last.amount > 0
    /\ last.owner \in DOMAIN accounts
    /\ ttl < TTL_THRESHOLD

\* --------------------------------------------------------------- C15
\* C15: an authenticated deposit_assets on an existing active account whose
\* balance + amount exceeds the i128 maximum aborts and leaves the stored
\* balance unchanged (the balance never wraps).
C15_DepositOverflowAborts ==
    [][ (Invoked("deposit") /\ last'.authed /\ last'.amount > 0 /\ HasAccount
            /\ Target.is_active
            /\ Target.balance + last'.amount > I128_MAX)
        => (last'.result = "abort" /\ accounts' = accounts)
      ]_vars

\* --------------------------------------------------------------- C16
\* C16: a create_custody_account call that returns true stores a record
\* whose owner is its key and whose required_signatures and is_insured are
\* the arguments; a stored record is never removed, and its owner,
\* required_signatures and is_insured never change; its balance changes
\* only in a deposit_assets or withdraw_assets call of that owner that
\* returns true.
C16_CreationFieldsPermanent ==
    [][ /\ (Invoked("create") /\ last'.result = "true")
              => /\ ~HasAccount
                 /\ last'.owner \in DOMAIN accounts'
                 /\ accounts'[last'.owner].owner = last'.owner
                 /\ accounts'[last'.owner].required_signatures = last'.required_signatures
                 /\ accounts'[last'.owner].is_insured = last'.insurance
        /\ \A o \in DOMAIN accounts :
              /\ o \in DOMAIN accounts'
              /\ accounts'[o].owner = o
              /\ accounts'[o].required_signatures = accounts[o].required_signatures
              /\ accounts'[o].is_insured = accounts[o].is_insured
              /\ accounts'[o].balance # accounts[o].balance
                    => /\ Invoked("deposit") \/ Invoked("withdraw")
                       /\ last'.owner = o
                       /\ last'.result = "true"
      ]_vars

\* An insured account with a threshold of 3 went through a deposit and a
\* withdrawal and still carries both creation values.
C16_Witness ==
    /\ last.op = "withdraw" /\ last.result = "true"
    /\ accounts[last.owner].owner = last.owner
    /\ accounts[last.owner].required_signatures = 3
    /\ accounts[last.owner].is_insured
    /\ ledger[last.owner] = accounts[last.owner].balance

\* --------------------------------------------------------------- C17
\* C17: every create_custody_account, deposit_assets or withdraw_assets
\* call that returns true refreshes the retention window of the instance
\* store (which holds every account record and the counter) with
\* threshold 5000 and target 5000: a window below 5000 becomes 5000, a
\* longer one is kept, so right after the call it is at least 5000.
C17_SuccessRefreshesRetention ==
    [][ (InvokedMutator /\ last'.result = "true")
        => /\ ttl' >= 5000
           /\ ttl < 5000 => ttl' = 5000
           /\ ttl >= 5000 => ttl' = ttl
      ]_vars

\* A deposit succeeded while both owners hold accounts, and the window is
\* at the target.
C17_Witness ==
    /\ last.op = "deposit" /\ last.result = "true"
    /\ DOMAIN accounts = Owners
    /\ ttl = TTL_EXTEND_TO

\* --------------------------------------------------------------- C18
\* C18: for an existing active account and amount > 0, withdraw_assets with
\* signatures_count < required_signatures and amount > balance aborts; it
\* never returns the soft result false.
C18_SignaturesBeforeBalance ==
    [][ (Invoked("withdraw") /\ HasAccount /\ Target.is_active
            /\ last'.amount > 0
            /\ last'.amount > Target.balance
            /\ last'.signatures_count < Target.required_signatures)
        => (last'.result = "abort" /\ last'.result # "false")
      ]_vars

\* An authenticated, under-signed withdrawal above the balance was aborted.
C18_Witness ==
    /\ last.op = "withdraw" /\ last.result = "abort" /\ last.authed
    /\ last.owner \in DOMAIN accounts
    /\ accounts[last.owner].is_active
    /\ last.amount > 0
    /\ last.amount > accounts[last.owner].balance
    /\ last.signatures_count < accounts[last.owner].required_signatures

\* --------------------------------------------------------------- C19
\* The result of call `c` as a function of its arguments and of its own
\* owner's stored record `own` (<<>> or <<record>>) alone.
OwnResult(c, own) ==
    IF ~c.authed THEN "abort"
    ELSE IF c.op = "create" THEN
            IF own # <<>> THEN "false"
            ELSE IF c.required_signatures < 2 THEN "abort" ELSE "true"
    ELSE IF c.amount <= 0 THEN "false"
    ELSE IF own = <<>> THEN "abort"
    ELSE IF ~own[1].is_active THEN "false"
    ELSE IF c.op = "deposit" THEN
            IF own[1].balance + c.amount > I128_MAX /\ overflow_checks
            THEN "abort" ELSE "true"
    ELSE IF c.signatures_count < own[1].required_signatures THEN "abort"
    ELSE IF own[1].balance < c.amount THEN "false" ELSE "true"

\* The owner's record after call `c`, as a function of the same data.
OwnRecord(c, own) ==
    IF OwnResult(c, own) # "true" THEN own
    ELSE IF c.op = "create"
         THEN <<CustodyAccount(c.owner, 0, c.required_signatures, c.insurance, TRUE)>>
    ELSE IF c.op = "deposit"
         THEN <<[own[1] EXCEPT !.balance = wrap_i128(@ + c.amount)]>>
    ELSE <<[own[1] EXCEPT !.balance = @ - c.amount]>>

\* C19: a create_custody_account, deposit_assets or withdraw_assets call for
\* owner A leaves the stored record of every other owner unchanged (and
\* adds or removes none), and its result and its effect on A's record are
\* functions of its arguments and A's own record only, whatever the other
\* owners' state; TotalAccounts grows by one exactly when a creation
\* returns true.  (Hence two calls for different owners give the same
\* results, records and TotalAccounts in either order.)
C19_OwnersIndependent ==
    [][ InvokedMutator
        => /\ \A o \in DOMAIN accounts \ {last'.owner} :
                  o \in DOMAIN accounts' /\ accounts'[o] = accounts[o]
           /\ DOMAIN accounts' \subseteq DOMAIN accounts \cup {last'.owner}
           /\ last'.result = OwnResult(last', get(last'.owner))
           /\ OwnRecord(last', get(last'.owner))
                 = IF last'.owner \in DOMAIN accounts'
                   THEN <<accounts'[last'.owner]>> ELSE <<>>
           /\ unwrap_or(tot_acc', 0) = TotalAccounts
                 + (IF last'.op = "create" /\ last'.result = "true" THEN 1 ELSE 0)
      ]_vars

\* One owner's deposit succeeded while the other owner holds an
\* untouched account with another threshold.
C19_Witness ==
    /\ last.op = "deposit" /\ last.result = "true"
    /\ \E o \in DOMAIN accounts :
          /\ o # last.owner
          /\ accounts[o].balance = 0
          /\ accounts[o].required_signatures
                # accounts[last.owner].required_signatures

\* --------------------------------------------------------------- C20
\* C20: every stored account has is_active = true; view_custody_account
\* reports is_active = false for an owner exactly when the owner has no
\* account (none was created, records are never removed); and the
\* `account is not active` rejection is never taken: an authenticated
\* deposit_assets with amount > 0 on an existing account never returns
\* false, and such a withdraw_assets returns false only for a sufficiently
\* signed amount above the balance.
C20_AccountsAlwaysActive ==
    /\ [](\A o \in DOMAIN accounts : accounts[o].is_active)
    /\ [](\A o \in Owners : ~lookup(o).is_active <=> o \notin DOMAIN accounts)
    /\ [][ ((Invoked("deposit") \/ Invoked("withdraw"))
               /\ last'.authed /\ last'.amount > 0 /\ HasAccount
               /\ last'.result = "false")
           => /\ last'.op = "withdraw"
              /\ last'.signatures_count >= Target.required_signatures
              /\ Target.balance < last'.amount
         ]_vars

\* A deposit into an existing account succeeded while the other owner has
\* no account and is reported inactive.
C20_Witness ==
    /\ last.op = "deposit" /\ last.result = "true"
    /\ accounts[last.owner].is_active
    /\ \E o \in Owners : o \notin DOMAIN accounts /\ ~lookup(o).is_active

=============================================================================
